---- MODULE Spec2Model ----
(***************************************************************************)
(* Recombination history builder of HyRec (src/hyrec/history.c):           *)
(* rec_get_cosmoparam, rec_HubbleConstant, rec_Tmss, rec_dTmdlna,          *)
(* rec_get_xe_next1, rec_get_xe_next2, rec_build_history and               *)
(* energy_injection_rate, as a state machine over the redshift grid.       *)
(*                                                                         *)
(* C doubles are modelled as binary floating-point numbers with a          *)
(* MantBits-bit significand and an unbounded exponent, with +inf, -inf and *)
(* NaN.  A number is a triple <<k, m, e>>: k = 0 is the finite value       *)
(* m * 2^e (m = 0, or 2^(MantBits-1) <= |m| < 2^MantBits), k = 1 is +inf,  *)
(* k = 2 is -inf, k = 3 is NaN.  Every operation rounds to nearest.        *)
(***************************************************************************)
EXTENDS Integers, Sequences, FiniteSets, TLC

\* Width of the significand of the modelled double.
MantBits == 13

\* ------------------------------------------------------------------------
\* Floating-point arithmetic (the C double operations the code uses).
\* Each operation is a function of its operands.
\* ------------------------------------------------------------------------

Flt == Int \X Int \X Int

FZero == <<0, 0, 0>>
FPInf == <<1, 0, 0>>
FNInf == <<2, 0, 0>>
FNaN  == <<3, 0, 0>>


\* number of bits of n
BitLenF[n \in Nat] == IF n = 0 THEN 0 ELSE 1 + BitLenF[n \div 2]

\* sign: -1, 0, 1; the sign of a NaN is 0
SgnF[x \in Flt] ==
    IF x[1] = 0 THEN (IF x[2] > 0 THEN 1 ELSE IF x[2] < 0 THEN -1 ELSE 0)
    ELSE IF x[1] = 1 THEN 1 ELSE IF x[1] = 2 THEN -1 ELSE 0

\* the infinity of sign s, NaN for s = 0
InfOfF[s \in Int] == IF s > 0 THEN FPInf ELSE IF s < 0 THEN FNInf ELSE FNaN

\* s * r * 2^e for a rounded r <= 2^MantBits
CarryF[s \in Int, r \in Nat, e \in Int] ==
    IF r = 2^MantBits THEN <<0, s * 2^(MantBits - 1), e + 1>> ELSE <<0, s * r, e>>

\* s * a * 2^e for an a of MantBits + sh bits, rounded to nearest
RoundF[s \in Int, a \in Nat, e \in Int, sh \in Int] ==
    IF sh > 0 THEN CarryF[s, (a + 2^(sh - 1)) \div 2^sh, e + sh]
    ELSE <<0, s * a * 2^(-sh), e + sh>>

\* the float nearest to s * a * 2^e, for a sign s and a magnitude a
NormF[s \in Int, a \in Nat, e \in Int] ==
    IF a = 0 THEN FZero ELSE RoundF[s, a, e, BitLenF[a] - MantBits]

\* the float nearest to t * 2^e: a literal, or an integer for e = 0
Lit(t, e) == NormF[IF t < 0 THEN -1 ELSE 1, IF t < 0 THEN -t ELSE t, e]

\* (double) n
FInt(n) == Lit(n, 0)

\* -x
FNegF[x \in Flt] ==
    IF x[1] = 0 THEN <<0, -x[2], x[3]>>
    ELSE IF x[1] = 1 THEN FNInf ELSE IF x[1] = 2 THEN FPInf ELSE x
FNeg(x) == FNegF[x]

\* fabs(x)
FAbs(x) == IF SgnF[x] < 0 THEN FNegF[x] ELSE x

\* hi + lo for finite non-zero numbers, the exponent of hi not below lo's
AddAlignedF[hi \in Flt, lo \in Flt] ==
    IF hi[3] - lo[3] > MantBits + 1 THEN hi
    ELSE Lit(hi[2] * 2^(hi[3] - lo[3]) + lo[2], lo[3])

\* x + y
FAddF[x \in Flt, y \in Flt] ==
    IF x[1] = 0 /\ y[1] = 0
    THEN (IF x[2] = 0 THEN y
          ELSE IF y[2] = 0 THEN x
          ELSE AddAlignedF[IF x[3] >= y[3] THEN x ELSE y,
                           IF x[3] >= y[3] THEN y ELSE x])
    ELSE IF x[1] = 0 THEN y
    ELSE IF y[1] = 0 \/ y = x THEN x
    ELSE FNaN
FAdd(x, y) == FAddF[x, y]

\* x - y
FSub(x, y) == FAddF[x, FNegF[y]]

\* x * y
FMulF[x \in Flt, y \in Flt] ==
    IF x[1] = 0 /\ y[1] = 0 THEN Lit(x[2] * y[2], x[3] + y[3])
    ELSE InfOfF[SgnF[x] * SgnF[y]]
FMul(x, y) == FMulF[x, y]

\* x / y
FDivF[x \in Flt, y \in Flt] ==
    IF x[1] = 0 /\ y[1] = 0 /\ y[2] # 0
    THEN NormF[IF (x[2] < 0) = (y[2] < 0) THEN 1 ELSE -1,
               ((IF x[2] < 0 THEN -x[2] ELSE x[2]) * 2^(MantBits + 1))
                   \div (IF y[2] < 0 THEN -y[2] ELSE y[2]),
               x[3] - y[3] - (MantBits + 1)]
    ELSE IF x[1] = 0 /\ (y[1] = 1 \/ y[1] = 2) THEN FZero
    ELSE IF y[1] # 0 THEN FNaN
    ELSE InfOfF[SgnF[x] * (IF y[2] < 0 THEN -1 ELSE 1)]
FDiv(x, y) == FDivF[x, y]

\* the C comparisons: every comparison with a NaN is false
FLtF[x \in Flt, y \in Flt] == SgnF[FAddF[x, FNegF[y]]] < 0
FLt(x, y) == FLtF[x, y]
FGt(x, y) == FLtF[y, x]
FLe(x, y) == x[1] # 3 /\ y[1] # 3 /\ ~FLtF[y, x]
FGe(x, y) == x[1] # 3 /\ y[1] # 3 /\ ~FLtF[x, y]

\* (long) floor(x), for a finite x
FFloorF[x \in Flt] == IF x[3] >= 0 THEN x[2] * 2^(x[3]) ELSE x[2] \div 2^(-x[3])
FFloor(x) == FFloorF[x]

\* ceil(x) as an integer, for a finite x
FCeil(x) == -FFloorF[FNegF[x]]

\* the integer square root
ISqrtStepF[n \in Nat, s \in Nat] == IF (s + 1) * (s + 1) <= n THEN s + 1 ELSE s
ISqrtF[n \in Nat] == IF n < 2 THEN n ELSE ISqrtStepF[n, 2 * ISqrtF[n \div 4]]

\* sqrt(x)
FSqrtF[x \in Flt] ==
    IF SgnF[x] < 0 \/ x[1] = 3 THEN FNaN
    ELSE IF x[1] = 1 \/ x[2] = 0 THEN x
    ELSE NormF[1, ISqrtF[x[2] * 2^(MantBits + ((x[3] - MantBits) % 2))],
               (x[3] - MantBits - ((x[3] - MantBits) % 2)) \div 2]
FSqrt(x) == FSqrtF[x]

One  == <<0, 2^(MantBits - 1), 1 - MantBits>>
Two  == <<0, 2^(MantBits - 1), 2 - MantBits>>
Ln2  == Lit(11629080, -24)    \* 0.693147...

\* the numeric literals of the code, each the float nearest to the decimal
D104em2 == Lit(1090519, -20)    \* 104e-2
D105em2 == Lit(4404019, -22)    \* 105e-2
D106em2 == Lit(2222981, -21)    \* 106e-2
D107em2 == Lit(8975811, -23)    \* 107e-2
D1122384633em8 == Lit(367783, -15)    \* 1122384633e-8
D125em2 == Lit(5, -2)    \* 125e-2
D12em1 == Lit(5033165, -22)    \* 12e-1
D13806503em30 == Lit(8750911, -99)    \* 13806503e-30
D14em2 == Lit(9395241, -26)    \* 14e-2
D15em1 == Lit(3, -1)    \* 15e-1
D1932em13 == Lit(13921527, -56)    \* 1932e-13
D1e6 == Lit(15625, 6)    \* 1e6
D1em10 == Lit(14411519, -57)    \* 1e-10
D1em3 == Lit(8589935, -33)    \* 1e-3
D1em4 == Lit(13743895, -37)    \* 1e-4
D1em5 == Lit(2748779, -38)    \* 1e-5
D1em6 == Lit(8796093, -43)    \* 1e-6
D1em7 == Lit(14073749, -47)    \* 1e-7
D1em9 == Lit(9007199, -53)    \* 1e-9
D227107318em9 == Lit(7620457, -25)    \* 227107318e-9
D22em3 == Lit(1476395, -26)    \* 22e-3
D24em2 == Lit(16106127, -26)    \* 24e-2
D25em2 == Lit(1, -2)    \* 25e-2
D2726em3 == Lit(11433673, -22)    \* 2726e-3
D3046em3 == Lit(6387925, -21)    \* 3046e-3
D31em2 == Lit(5200937, -24)    \* 31e-2
D324077929em26 == Lit(15671447, -82)    \* 324077929e-26
D397153em5 == Lit(4164451, -20)    \* 397153e-5
D448162688em15 == Lit(15768323, -45)    \* 448162688e-15
D4827652em24 == Lit(5836273, -80)    \* 4827652e-24
D491466896em30 == Lit(9734505, -94)    \* 491466896e-30
D4em1 == Lit(13421773, -25)    \* 4e-1
D5em1 == Lit(1, -1)    \* 5e-1
D6em1 == Lit(10066330, -24)    \* 6e-1
D5em4 == Lit(8589935, -34)    \* 5e-4
D5em5 == Lit(13743895, -38)    \* 5e-5
D838490285em9 == Lit(14067533, -24)    \* 838490285e-9
D99em2 == Lit(4152361, -22)    \* 99e-2
Dm14em2 == Lit(-9395241, -26)    \* -14e-2
Dm1em13 == Lit(-14757395, -67)    \* -1e-13
Dm25em2 == Lit(-1, -2)    \* -25e-2
D849em7 == Lit(11668567, -37)    \* 849e-7
D1em1 == Lit(13421773, -27)    \* 1e-1
Dm15em1 == Lit(-3, -1)    \* -15e-1
D108em2 == Lit(9059697, -23)    \* 108e-2
Dm97 == Lit(-97, 0)    \* -97e0
I2500 == FInt(2500)
I2501 == FInt(2501)
I3 == FInt(3)
I30 == FInt(30)
I31 == FInt(31)
I300 == FInt(300)
I700 == FInt(700)
I8000 == FInt(8000)
Im1 == FInt(-1)
Im2 == FInt(-2)
Im3 == FInt(-3)

\* number of terms of the series of exp and log
SeriesTerms == 6

\* 1 + r/k * (1 + r/(k+1) * (...)): the Taylor series of exp(r) from term k
ExpSeriesF[r \in Flt, k \in Nat] ==
    IF k > SeriesTerms THEN One
    ELSE FAddF[One, FMulF[FDivF[r, FInt(k)], ExpSeriesF[r, k + 1]]]

\* x * 2^n
Scale2F[x \in Flt, n \in Int] == IF x[1] = 0 /\ x[2] # 0 THEN <<0, x[2], x[3] + n>> ELSE x

\* exp(x) = 2^n * exp(x - n*ln2)
ExpSplitF[x \in Flt, n \in Int] ==
    Scale2F[ExpSeriesF[FAddF[x, FNegF[FMulF[FInt(n), Ln2]]], 1], n]

\* exp(x)
FExpF[x \in Flt] ==
    IF x[1] = 3 THEN FNaN
    ELSE IF x[1] = 1 THEN FPInf
    ELSE IF x[1] = 2 THEN FZero
    ELSE IF x[2] = 0 THEN One
    ELSE ExpSplitF[x, FFloorF[FAddF[FDivF[x, Ln2], D5em1]]]
FExp(x) == FExpF[x]

\* 1/k + u2 * (1/(k+2) + u2 * (...)): the series of atanh(u)/u from term k
AtanhSeriesF[u2 \in Flt, k \in Nat] ==
    IF k > 2 * SeriesTerms THEN FZero
    ELSE FAddF[FDivF[One, FInt(k)], FMulF[u2, AtanhSeriesF[u2, k + 2]]]

\* 2 atanh(u)
Atanh2F[u \in Flt] == FMulF[FMulF[Two, u], AtanhSeriesF[FMulF[u, u], 1]]

\* log(x): x = t * 2^n with 1 <= t < 2, and ln(t) = 2 atanh((t-1)/(t+1))
FLogF[x \in Flt] ==
    IF SgnF[x] < 0 \/ x[1] = 3 THEN FNaN
    ELSE IF x[1] = 1 THEN FPInf
    ELSE IF x[2] = 0 THEN FNInf
    ELSE FAddF[FMulF[FInt(x[3] + MantBits - 1), Ln2],
               Atanh2F[FDivF[FAddF[x, FNegF[Scale2F[One, x[3] + MantBits - 1]]],
                             FAddF[x, Scale2F[One, x[3] + MantBits - 1]]]]]
FLog(x) == FLogF[x]

\* x^n for an integer n >= 0, by repeated multiplication
FPowIntF[x \in Flt, n \in Nat] == IF n = 0 THEN One ELSE FMulF[FPowIntF[x, n - 1], x]

\* the integer that y holds, when y holds an integer of magnitude up to 8
SmallIntF[y \in Flt] ==
    IF y[1] = 0 /\ y[3] <= 0 /\ y[3] >= -MantBits
    THEN (IF y[2] % 2^(-y[3]) = 0 /\ y[2] \div 2^(-y[3]) \in -8..8
          THEN y[2] \div 2^(-y[3]) ELSE 9)
    ELSE 9

\* pow(x, n) for an integer n
FPowSmallF[x \in Flt, n \in Int] ==
    IF n >= 0 THEN FPowIntF[x, n] ELSE FDivF[One, FPowIntF[x, -n]]

\* pow(x, y)
FPowF[x \in Flt, y \in Flt] ==
    IF y[1] = 0 /\ y[2] = 0 THEN One
    ELSE IF x[1] = 3 \/ y[1] = 3 THEN FNaN
    ELSE IF SmallIntF[y] # 9 THEN FPowSmallF[x, SmallIntF[y]]
    ELSE IF x[1] = 0 /\ x[2] = 0 THEN (IF SgnF[y] > 0 THEN FZero ELSE FPInf)
    ELSE FExpF[FMulF[y, FLogF[x]]]
FPow(x, y) == FPowF[x, y]

\* pow(x, n) for a literal integer n
FPowN(x, n) == FPowSmallF[x, n]

\* x * x
Sq(x) == FMulF[x, x]

\* ------------------------------------------------------------------------
\* Cosmological parameters
\* ------------------------------------------------------------------------

\* The nine scalars read from the input stream, in reading order, and the
\* energy-injection parameters the caller has set in the same structure.
CanonicalInput ==
    [T0 |-> D2726em3, obh2 |-> D22em3, omh2 |-> D14em2,
     okh2 |-> FZero, odeh2 |-> D31em2, w0 |-> Im1, wa |-> FZero,
     Y |-> D24em2, Nnueff |-> D3046em3,
     p_ann |-> FZero, alpha |-> FZero, p_dec |-> FZero]

\* The canonical cosmology with dark-matter annihilation and decay switched on.
InjectingInput ==
    [CanonicalInput EXCEPT !.p_ann = D1em6, !.alpha = D25em2, !.p_dec = D1em9]

\* Inputs that violate one precondition each.
BadInputs ==
    { [CanonicalInput EXCEPT !.T0 = FZero],
      [CanonicalInput EXCEPT !.omh2 = Dm14em2],
      [CanonicalInput EXCEPT !.Y = D12em1] }

\* The redshift grid (zstart, zend, dlna).  The code fixes one grid of about
\* 10^5 points; the model walks grids of the same shape with a coarser step,
\* a short fine one that ends above the z = 700 switch, and one that crosses
\* that switch with indices left.
CoarseGrid == [zstart |-> I8000, zend |-> FZero, dlna |-> D15em1]
FineGrid   == [zstart |-> I8000, zend |-> I700, dlna |-> D4em1]
MidGrid    == [zstart |-> I8000, zend |-> I300, dlna |-> D6em1]
TinyGrid   == [zstart |-> I8000, zend |-> FZero, dlna |-> I3]

Inputs == {<<CanonicalInput, g>> : g \in {CoarseGrid, FineGrid, MidGrid, TinyGrid}}
             \cup {<<b, TinyGrid>> : b \in BadInputs}
             \cup {<<InjectingInput, CoarseGrid>>}

\* the preconditions of section 7 on the scalars read
ValidInput(p) == /\ FGt(p.T0, FZero)
                 /\ FGe(p.obh2, FZero) /\ FGe(p.omh2, FZero)
                 /\ FGe(p.okh2, FZero) /\ FGe(p.odeh2, FZero)
                 /\ FGe(p.Y, FZero) /\ FLt(p.Y, One)

\* log((1+zstart)/(1+zend))/dlna
GridQuotient(zstart, zend, dlna) ==
    FDiv(FLog(FDiv(FAdd(One, zstart), FAdd(One, zend))), dlna)

\* a grid length rounded up
GridLength_ceil(zstart, zend, dlna) == 2 + FCeil(GridQuotient(zstart, zend, dlna))
\* (long) floor(2 + log((1+zstart)/(1+zend))/dlna)
GridLength(zstart, zend, dlna) ==
    FFloor(FAdd(Two, FDiv(FLog(FDiv(FAdd(One, zstart), FAdd(One, zend))), dlna)))

\* rec_get_cosmoparam: the structure after reading input inp on grid g
rec_get_cosmoparam(inp, g) ==
    [T0 |-> inp.T0, obh2 |-> inp.obh2, omh2 |-> inp.omh2, okh2 |-> inp.okh2,
     odeh2 |-> inp.odeh2, w0 |-> inp.w0, wa |-> inp.wa, Y |-> inp.Y,
     Nnueff |-> inp.Nnueff,
     p_ann |-> inp.p_ann, alpha |-> inp.alpha, p_dec |-> inp.p_dec,
     nH0 |-> FMul(FMul(D1122384633em8, inp.obh2), FSub(One, inp.Y)),
     fHe |-> FDiv(FDiv(inp.Y, FSub(One, inp.Y)), D397153em5),
     zstart |-> g.zstart, zend |-> g.zend, dlna |-> g.dlna,
     nz |-> GridLength(g.zstart, g.zend, g.dlna)]

\* z(i) = (1+zstart)*exp(-dlna*i) - 1
Zgrid(p, i) == FSub(FMul(FAdd(One, p.zstart), FExp(FMul(FNeg(p.dlna), FInt(i)))), One)

cube(x) == FMul(FMul(x, x), x)

\* ------------------------------------------------------------------------
\* Hubble rate, energy injection, matter temperature
\* ------------------------------------------------------------------------

\* a total density without the photon and neutrino terms
HubbleRhoSum_matter(rho0, rho1, rho2, rho3, Nnueff) ==
    FAdd(FAdd(FAdd(FZero, rho0), rho1), rho2)
\* rho_i[0..4] summed in index order from 0.; rho_i[4] is scaled from rho_i[3]
HubbleRhoSum(rho0, rho1, rho2, rho3, Nnueff) ==
    FAdd(FAdd(FAdd(FAdd(FAdd(FZero, rho0), rho1), rho2), rho3),
         FMul(FMul(D227107318em9, rho3), Nnueff))

\* a dark-energy density with exp(3 wa ln a), a = 1/ainv
rho_DE_lna(p, ainv) ==
    FMul(FMul(p.odeh2, FPow(ainv, FMul(I3, FAdd(One, p.w0)))),
         FExp(FMul(FMul(I3, p.wa), FNeg(FLog(ainv)))))
\* rho_i[2], the dark-energy density, line 79
rho_DE(p, ainv) ==
    FMul(FMul(p.odeh2, FPow(ainv, FMul(I3, FAdd(One, p.w0)))),
         FExp(FMul(FMul(I3, p.wa),
                   FAdd(FSub(FLog(ainv), One), FDiv(One, ainv)))))

\* the total density at the inverse scale factor ainv
HubbleRho(p, ainv) ==
    HubbleRhoSum(
        FMul(FMul(FMul(p.omh2, ainv), ainv), ainv),
        FMul(FMul(p.okh2, ainv), ainv),
        rho_DE(p, ainv),
        FMul(FMul(FMul(FMul(
            FMul(FMul(FMul(FMul(D448162688em15, p.T0), p.T0), p.T0), p.T0),
            ainv), ainv), ainv), ainv),
        p.Nnueff)

\* rec_HubbleConstant
rec_HubbleConstant(p, z) ==
    FMul(D324077929em26, FSqrt(HubbleRho(p, FAdd(One, z))))

\* an annihilation parameter whose low branch is frozen at 1 + z = 30
p_annihilation_at_z_low(p, z) ==
    FMul(p.p_ann,
         FExp(IF FGt(z, I2500)
              THEN FMul(FNeg(p.alpha), D838490285em9)
              ELSE IF FGt(z, I30)
              THEN FMul(p.alpha, FSub(Sq(FLog(FDiv(FAdd(One, z), I2501))),
                                      D838490285em9))
              ELSE FMul(p.alpha, FSub(Sq(FLog(FDiv(I30, I2501))),
                                      D838490285em9))))
\* the redshift-dependent annihilation parameter
p_annihilation_at_z(p, z) ==
    FMul(p.p_ann,
         FExp(IF FGt(z, I2500)
              THEN FMul(FNeg(p.alpha), D838490285em9)
              ELSE IF FGt(z, I30)
              THEN FMul(p.alpha, FSub(Sq(FLog(FDiv(FAdd(One, z), I2501))),
                                      D838490285em9))
              ELSE FMul(p.alpha, FSub(Sq(FLog(FDiv(I31, I2501))),
                                      D838490285em9))))

\* energy_injection_rate
energy_injection_rate(p, z) ==
    FAdd(FMul(FMul(FPowN(FMul(p.omh2, D4827652em24), 2),
                   FPowN(FAdd(One, z), 6)),
              p_annihilation_at_z(p, z)),
         FMul(FMul(D1932em13, FPowN(FAdd(One, z), 3)), p.p_dec))

\* 8 sigma_T a_r / (3 m_e c)
ComptonCoeff == D491466896em30
\* k_b in m^2 kg s^-2 K^-1
k_b == D13806503em30

\* a matter temperature locked to the radiation temperature
rec_Tmss_locked(xe, Tr, H, fHe, nH, z, energy_rate) == Tr
\* rec_Tmss: first-order steady-state matter temperature
rec_Tmss(xe, Tr, H, fHe, nH, z, energy_rate) ==
    FAdd(FDiv(Tr,
              FAdd(One,
                   FDiv(FMul(FDiv(FDiv(FDiv(FDiv(FDiv(H, ComptonCoeff), Tr), Tr), Tr), Tr),
                             FAdd(FAdd(One, xe), fHe)),
                        xe))),
         FMul(FDiv(FMul(FDiv(FMul(FDiv(One,
                                       FMul(FMul(ComptonCoeff, FPowN(Tr, 4)), xe)),
                                  Two),
                             FMul(I3, k_b)),
                        FAdd(One, FMul(Two, xe))),
                   FMul(FMul(I3, nH), D1e6)),
              energy_rate))

\* rec_dTmdlna: matter temperature derivative
rec_dTmdlna(xe, Tm, Tr, H, fHe, nH, z, energy_rate) ==
    FAdd(FAdd(FMul(Im2, Tm),
              FDiv(FMul(FDiv(FMul(FMul(FMul(FMul(FMul(ComptonCoeff, Tr), Tr), Tr), Tr), xe),
                             FAdd(FAdd(One, xe), fHe)),
                        FSub(Tr, Tm)),
                   H)),
         FDiv(FDiv(FMul(FDiv(FMul(FDiv(Two, FMul(I3, k_b)),
                                  FAdd(One, FMul(Two, xe))),
                             FMul(FMul(I3, nH), D1e6)),
                        energy_rate),
                   FAdd(FAdd(One, xe), fHe)),
              H))

\* ------------------------------------------------------------------------
\* The multistep integrator
\* ------------------------------------------------------------------------

FUNC_HEI     == "FUNC_HEI"
FUNC_H2G     == "FUNC_H2G"
FUNC_HMLA    == "FUNC_HMLA"
FUNC_PEEBLES == "FUNC_PEEBLES"

\* an update with the lagged sample weighted twice
MultiStep_heavy(y, f, f2, dlna) ==
    FAdd(y, FMul(dlna, FSub(FMul(D125em2, f), FMul(D5em1, f2))))
\* y + dlna * (1.25 * f - 0.25 * f2)
MultiStep(y, f, f2, dlna) ==
    FAdd(y, FMul(dlna, FSub(FMul(D125em2, f), FMul(D25em2, f2))))

\* a selection that sends the two-photon tag to the simplified kernel
Kernel1_mla(func_select) ==
    IF func_select = FUNC_HEI THEN "rec_helium_dxedt" ELSE "rec_HMLA_dxedlna"
\* the kernel the default model resolves func_select to in rec_get_xe_next1
Kernel1(func_select) ==
    IF func_select = FUNC_HEI THEN "rec_helium_dxedt"
    ELSE IF func_select = FUNC_H2G THEN "rec_HMLA_2photon_dxedlna"
    ELSE "rec_HMLA_dxedlna"

\* the kernel the default model resolves func_select to in rec_get_xe_next2
Kernel2(func_select) ==
    IF func_select = FUNC_HEI THEN "rec_helium_dxedt"
    ELSE IF func_select = FUNC_H2G THEN "rec_HMLA_2photon_dxedlna"
    ELSE IF func_select = FUNC_HMLA THEN "rec_HMLA_dxedlna"
    ELSE "rec_HPeebles_dxedlna"

\* the steady-state Tm that rec_get_xe_next1 hands to the kernel (line 147)
Tm_next1(p, z1, xe_in) ==
    rec_Tmss(xe_in, FMul(p.T0, FAdd(One, z1)), rec_HubbleConstant(p, z1), p.fHe,
             FMul(FMul(FMul(FMul(p.nH0, FAdd(One, z1)), FAdd(One, z1)),
                       FAdd(One, z1)), D1em6),
             z1, energy_injection_rate(p, z1))

\* the derivative rec_get_xe_next1/2 use: dxe/dt over H for helium, the
\* kernel's dxe/dlna for hydrogen
dxedlna_of(func_select, kret, H) ==
    IF func_select = FUNC_HEI THEN FDiv(kret, H) ELSE kret

\* an update that takes the sample one step back
xe_next1_update_recent(p, z1, xe_in, func_select, dxedlna, lag) ==
    [xe_out        |-> MultiStep(xe_in, dxedlna, lag.dxedlna_prev, p.dlna),
     z_prev2       |-> lag.z_prev,
     dxedlna_prev2 |-> lag.dxedlna_prev,
     z_prev        |-> z1,
     dxedlna_prev  |-> dxedlna,
     kernel        |-> Kernel1(func_select)]
\* the update and the shift of the lagged samples, lines 165-170
xe_next1_update(p, z1, xe_in, func_select, dxedlna, lag) ==
    [xe_out        |-> MultiStep(xe_in, dxedlna, lag.dxedlna_prev2, p.dlna),
     z_prev2       |-> lag.z_prev,
     dxedlna_prev2 |-> lag.dxedlna_prev,
     z_prev        |-> z1,
     dxedlna_prev  |-> dxedlna,
     kernel        |-> Kernel1(func_select)]

\* rec_get_xe_next1: one step of xe with Tm at steady state.  kret is the
\* value the selected kernel returns; lag holds the two lagged samples.
rec_get_xe_next1(p, z1, xe_in, func_select, kret, lag) ==
    xe_next1_update(p, z1, xe_in, func_select,
                    dxedlna_of(func_select, kret, rec_HubbleConstant(p, z1)), lag)

\* a shift that keeps the newer lagged redshift
xe_next2_update_stale(p, z1, xe_in, Tm_in, func_select, dxedlna, dTmdlna, lag) ==
    [xe_out        |-> MultiStep(xe_in, dxedlna, lag.dxedlna_prev2, p.dlna),
     Tm_out        |-> MultiStep(Tm_in, dTmdlna, lag.dTmdlna_prev2, p.dlna),
     z_prev2       |-> lag.z_prev,
     dxedlna_prev2 |-> lag.dxedlna_prev,
     dTmdlna_prev2 |-> lag.dTmdlna_prev,
     z_prev        |-> lag.z_prev,
     dxedlna_prev  |-> dxedlna,
     dTmdlna_prev  |-> dTmdlna,
     kernel        |-> Kernel2(func_select)]

\* the updates and the shift of the lagged samples, lines 211-219
xe_next2_update(p, z1, xe_in, Tm_in, func_select, dxedlna, dTmdlna, lag) ==
    [xe_out        |-> MultiStep(xe_in, dxedlna, lag.dxedlna_prev2, p.dlna),
     Tm_out        |-> MultiStep(Tm_in, dTmdlna, lag.dTmdlna_prev2, p.dlna),
     z_prev2       |-> lag.z_prev,
     dxedlna_prev2 |-> lag.dxedlna_prev,
     dTmdlna_prev2 |-> lag.dTmdlna_prev,
     z_prev        |-> z1,
     dxedlna_prev  |-> dxedlna,
     dTmdlna_prev  |-> dTmdlna,
     kernel        |-> Kernel2(func_select)]

\* rec_get_xe_next2 with ainv = 1 + z1 and H = rec_HubbleConstant(param, z1)
xe_next2_with(p, z1, xe_in, Tm_in, func_select, kret, lag, ainv, H) ==
    xe_next2_update(p, z1, xe_in, Tm_in, func_select,
                    dxedlna_of(func_select, kret, H),
                    rec_dTmdlna(xe_in, Tm_in, FMul(p.T0, ainv), H, p.fHe,
                                FMul(FMul(FMul(FMul(p.nH0, ainv), ainv), ainv), D1em6),
                                z1, energy_injection_rate(p, z1)),
                    lag)

\* rec_get_xe_next2: one step of xe and Tm together
rec_get_xe_next2(p, z1, xe_in, Tm_in, func_select, kret, lag) ==
    xe_next2_with(p, z1, xe_in, Tm_in, func_select, kret, lag,
                  FAdd(One, z1), rec_HubbleConstant(p, z1))

\* ------------------------------------------------------------------------
\* Collaborators (helium.c, hydrogen.c): the values a call can return
\* ------------------------------------------------------------------------

\* rec_sahaHeII(nH0, T0, fHe, z, &Delta_xe): xe and xHeIII
rec_sahaHeII ==
    {[xe |-> D107em2, Delta_xe |-> D1em7], [xe |-> D105em2, Delta_xe |-> D1em10]}

\* xe_PostSahaHe(nH0, T0, fHe, H, z, &Delta_xe): xe and xe - xe(Saha)
xe_PostSahaHe ==
    {[xe |-> D104em2, Delta_xe |-> D1em4], [xe |-> D106em2, Delta_xe |-> D1em3]}

\* rec_helium_dxedt(xe, nH0, T0, fHe, H, z): dxe/dt
rec_helium_dxedt == {FZero, Dm1em13}

\* rec_saha_xe_H(nH0, T0, z): at the evolved xe, or away from it
rec_saha_xe_H(xe) == {xe, FAdd(xe, D1em3)}

\* xe_PostSahaH(..., &Delta_xe, MODEL, energy_rate): xe and xe - xe(Saha)
xe_PostSahaH ==
    {[xe |-> D99em2, Delta_xe |-> D1em5], [xe |-> D99em2, Delta_xe |-> D1em4],
     [xe |-> D1em3, Delta_xe |-> D1em4]}

\* the hydrogen kernels: dxe/dlna
rec_H_dxedlna == {FZero, Dm25em2}

\* what the selected kernel can return
KernelReturns(func_select) ==
    IF func_select = FUNC_HEI THEN rec_helium_dxedt ELSE rec_H_dxedlna

\* ------------------------------------------------------------------------
\* rec_build_history as a state machine
\* ------------------------------------------------------------------------

VARIABLES
    pc,             \* position in main: "param", "ready", "s1" .. "s8", "done"
    input,          \* <<scalars on the input stream, grid>>
    param,          \* REC_COSMOPARAMS
    iz, z, Delta_xe,
    xe_output, Tm_output,
    z_prev, dxedlna_prev, z_prev2, dxedlna_prev2,
    dTmdlna_prev, dTmdlna_prev2,
    fminus,         \* logfminus_hist and logfminus_Ly_hist: columns allocated,
                    \* times released, indices update_fminus_Saha was called with
    wrote_xe,       \* history: indices of xe_output written, in order
    wrote_Tm,       \* history: indices of Tm_output written, in order
    wrote_stage,    \* history: stage that wrote each index, in order
    nsteps,         \* history: steps taken by the current stage
    call,           \* history: the last call of rec_get_xe_next1/2
    oob_read,       \* history: a read outside the output arrays has happened
    probe           \* the arguments and the result of a function applied on its own

vars == <<pc, input, param, iz, z, Delta_xe, xe_output, Tm_output,
          z_prev, dxedlna_prev, z_prev2, dxedlna_prev2, dTmdlna_prev,
          dTmdlna_prev2, fminus, wrote_xe, wrote_Tm, wrote_stage, nsteps,
          call, oob_read, probe>>

\* the variables of rec_build_history and its caller
mainvars == <<pc, input, param, iz, z, Delta_xe, xe_output, Tm_output,
              z_prev, dxedlna_prev, z_prev2, dxedlna_prev2, dTmdlna_prev,
              dTmdlna_prev2, fminus, wrote_xe, wrote_Tm, wrote_stage, nsteps,
              call, oob_read>>

\* an uninitialised double that is never read
Unset == <<4, 0, 0>>

\* what a read outside the arrays can return
Garbage == {FZero, One}

NoCall == [stage |-> 0]

NoParam == [nz |-> 0]

NoProbe == [n |-> 0]

\* the state before main starts, at position p with x on the input stream
Fresh(p, x) ==
    /\ pc = p
    /\ input = x
    /\ param = NoParam
    /\ iz = 0
    /\ z = Unset
    /\ Delta_xe = Unset
    /\ xe_output = << >>
    /\ Tm_output = << >>
    /\ z_prev = Unset /\ dxedlna_prev = Unset
    /\ z_prev2 = Unset /\ dxedlna_prev2 = Unset
    /\ dTmdlna_prev = Unset /\ dTmdlna_prev2 = Unset
    /\ fminus = [cols |-> 0, released |-> 0, updates |-> << >>]
    /\ wrote_xe = << >> /\ wrote_Tm = << >> /\ wrote_stage = << >>
    /\ nsteps = 0
    /\ call = NoCall
    /\ oob_read = FALSE

Init == (\E x \in Inputs : Fresh("param", x)) /\ probe = NoProbe

\* main reads the parameters
GetCosmoparam ==
    /\ pc = "param"
    /\ param' = rec_get_cosmoparam(input[1], input[2])
    /\ pc' = "ready"
    /\ UNCHANGED <<probe, input, iz, z, Delta_xe, xe_output, Tm_output, z_prev,
                   dxedlna_prev, z_prev2, dxedlna_prev2, dTmdlna_prev,
                   dTmdlna_prev2, fminus, wrote_xe, wrote_Tm, wrote_stage,
                   nsteps, call, oob_read>>

\* the caller allocates the outputs; rec_build_history allocates the photon
\* occupation history and enters the He II + III Saha phase
BuildStart ==
    /\ pc = "ready"
    /\ xe_output' = [i \in 0..(param.nz - 1) |-> Unset]
    /\ Tm_output' = [i \in 0..(param.nz - 1) |-> Unset]
    /\ fminus' = [fminus EXCEPT !.cols = param.nz]
    /\ z' = param.zstart
    /\ Delta_xe' = One
    /\ iz' = 0
    /\ nsteps' = 0
    /\ pc' = "s1"
    /\ UNCHANGED <<probe, input, param, z_prev, dxedlna_prev, z_prev2, dxedlna_prev2,
                   dTmdlna_prev, dTmdlna_prev2, wrote_xe, wrote_Tm,
                   wrote_stage, call, oob_read>>

\* an increment that skips an index
NextIz_skip(i) == i + 2
\* iz++
NextIz(i) == i + 1

\* a loop order in which the first loop follows the second
StageAfter_back(stage) ==
    IF stage = 2 THEN "s1"
    ELSE <<"s2", "s3", "s4", "s5", "s6", "s7", "s8", "done">>[stage]
\* the loops follow one another in the text: where control goes when the
\* loop of a phase ends
StageAfter(stage) == <<"s2", "s3", "s4", "s5", "s6", "s7", "s8", "done">>[stage]

\* the loop conditions of the eight phases
DXHeIII_MAX   == D1em9
DXHeII_MAX    == D5em4
DXH_HE_MAX    == D1em4
DXHII_MAX     == D5em5
DLNT_MAX      == D5em4
Z_HE_END      == 1650
Z_2PHOTON_END == 700
Z_PEEBLES     == 20

\* a first loop that ends at a looser threshold
Stage1Cond_loose == iz < param.nz /\ FGt(Delta_xe, D1em5)
Stage1Cond == iz < param.nz /\ FGt(Delta_xe, DXHeIII_MAX)
Stage2Cond == iz < param.nz /\ FLt(Delta_xe, DXHeII_MAX)
\* a third loop that runs only while both tests hold
Stage3Cond_both == iz < param.nz /\ (FGt(Delta_xe, D1em4) /\ FGt(z, FInt(1650)))
Stage3Cond == iz < param.nz /\ (FGt(Delta_xe, DXH_HE_MAX) \/ FGt(z, FInt(Z_HE_END)))
Stage4Cond == iz < param.nz /\ FLt(Delta_xe, DXHII_MAX)
Stage5Cond == /\ iz < param.nz
              /\ FLt(FSub(One, FDiv(FDiv(Tm_output[iz - 1], param.T0), FAdd(One, z))),
                     DLNT_MAX)
              /\ FGt(z, FInt(Z_2PHOTON_END))
\* a sixth loop that runs on to z = 20
Stage6Cond_low == iz < param.nz /\ FGt(z, FInt(20))
Stage6Cond == iz < param.nz /\ FGt(z, FInt(Z_2PHOTON_END))
Stage7Cond == iz < param.nz /\ FGt(z, FInt(Z_PEEBLES))
\* a last loop that stops one index short of the grid
Stage8Cond_short == iz < param.nz - 1
Stage8Cond == iz < param.nz

\* arr[i], or g when i is outside the array
Rd(arr, i, g) == IF i \in DOMAIN arr THEN arr[i] ELSE g
\* the values a read of index i can see besides the array's own
Stray(i) == IF i \in 0..(param.nz - 1) THEN {Unset} ELSE Garbage
InArrays(i) == i \in 0..(param.nz - 1)

\* the bookkeeping of one written index
Logged(stage) ==
    /\ wrote_xe' = Append(wrote_xe, iz)
    /\ wrote_Tm' = Append(wrote_Tm, iz)
    /\ wrote_stage' = Append(wrote_stage, stage)
    /\ nsteps' = nsteps + 1

lagvars == <<z_prev, dxedlna_prev, z_prev2, dxedlna_prev2, dTmdlna_prev, dTmdlna_prev2>>

\* He II + III Saha phase, lines 251-255
Stage1Step ==
    /\ pc = "s1"
    /\ Stage1Cond
    /\ \E r \in rec_sahaHeII :
         /\ z' = Zgrid(param, iz)
         /\ xe_output' = [xe_output EXCEPT ![iz] = r.xe]
         /\ Delta_xe' = r.Delta_xe
         /\ Tm_output' = [Tm_output EXCEPT ![iz] = FMul(param.T0, FAdd(One, z'))]
    /\ iz' = NextIz(iz)
    /\ Logged(1)
    /\ UNCHANGED <<probe, pc, input, param, lagvars, fminus, call, oob_read>>

Stage1Exit ==
    /\ pc = "s1"
    /\ ~Stage1Cond
    /\ Delta_xe' = FZero
    /\ pc' = StageAfter(1)
    /\ nsteps' = 0
    /\ UNCHANGED <<probe, input, param, iz, z, xe_output, Tm_output, lagvars, fminus,
                   wrote_xe, wrote_Tm, wrote_stage, call, oob_read>>

\* He I + II post-Saha phase, lines 260-264
Stage2Step ==
    /\ pc = "s2"
    /\ Stage2Cond
    /\ \E r \in xe_PostSahaHe :
         /\ z' = Zgrid(param, iz)
         /\ xe_output' = [xe_output EXCEPT ![iz] = r.xe]
         /\ Delta_xe' = r.Delta_xe
         /\ Tm_output' = [Tm_output EXCEPT ![iz] = FMul(param.T0, FAdd(One, z'))]
    /\ iz' = NextIz(iz)
    /\ Logged(2)
    /\ UNCHANGED <<probe, pc, input, param, lagvars, fminus, call, oob_read>>

\* seeds stored with the redshifts one index later
SeedXe_late(p, izv, x1, x2, x3, x4) ==
    [z_prev2       |-> Zgrid(p, izv - 2),
     dxedlna_prev2 |-> FDiv(FDiv(FSub(x2, x4), Two), p.dlna),
     z_prev        |-> Zgrid(p, izv - 1),
     dxedlna_prev  |-> FDiv(FDiv(FSub(x1, x3), Two), p.dlna)]
\* the lagged xe samples seeded from the history, lines 268-272 and 306-310;
\* xk is the value read at xe_output[izv - k]
SeedXe(p, izv, x1, x2, x3, x4) ==
    [z_prev2       |-> Zgrid(p, izv - 3),
     dxedlna_prev2 |-> FDiv(FDiv(FSub(x2, x4), Two), p.dlna),
     z_prev        |-> Zgrid(p, izv - 2),
     dxedlna_prev  |-> FDiv(FDiv(FSub(x1, x3), Two), p.dlna)]

\* the seeding of the xe samples as a step: every read outside the arrays
\* returns some value
Seeding ==
    \E g1 \in Stray(iz - 1), g2 \in Stray(iz - 2),
       g3 \in Stray(iz - 3), g4 \in Stray(iz - 4) :
       \E sd \in {SeedXe(param, iz, Rd(xe_output, iz - 1, g1), Rd(xe_output, iz - 2, g2),
                           Rd(xe_output, iz - 3, g3), Rd(xe_output, iz - 4, g4))} :
             /\ z_prev2' = sd.z_prev2
             /\ dxedlna_prev2' = sd.dxedlna_prev2
             /\ z_prev' = sd.z_prev
             /\ dxedlna_prev' = sd.dxedlna_prev
             /\ oob_read' = (oob_read \/ ~InArrays(iz - 1) \/ ~InArrays(iz - 4))

Stage2Exit ==
    /\ pc = "s2"
    /\ ~Stage2Cond
    /\ Seeding
    /\ Delta_xe' = One
    /\ pc' = StageAfter(2)
    /\ nsteps' = 0
    /\ UNCHANGED <<probe, input, param, iz, z, xe_output, Tm_output, dTmdlna_prev,
                   dTmdlna_prev2, fminus, wrote_xe, wrote_Tm, wrote_stage, call>>

\* the lagged samples as rec_get_xe_next1/2 receive them
Lag == [z_prev |-> z_prev, dxedlna_prev |-> dxedlna_prev,
        z_prev2 |-> z_prev2, dxedlna_prev2 |-> dxedlna_prev2,
        dTmdlna_prev |-> dTmdlna_prev, dTmdlna_prev2 |-> dTmdlna_prev2]

\* the record of a call of rec_get_xe_next1
Call1(stage, func_select, r) ==
    [stage |-> stage, out |-> iz, z1 |-> z, xe_in |-> xe_output[iz - 1],
     Tm_in |-> Unset, iz_arg |-> iz - 1, func |-> func_select,
     kernel |-> r.kernel, z_lag |-> z_prev2, z_lag1 |-> z_prev,
     f |-> r.dxedlna_prev, f_lag |-> dxedlna_prev2,
     g |-> Unset, g_lag |-> Unset, xe_out |-> r.xe_out, Tm_out |-> Unset]

\* the record of a call of rec_get_xe_next2
Call2(stage, func_select, r) ==
    [stage |-> stage, out |-> iz, z1 |-> z, xe_in |-> xe_output[iz - 1],
     Tm_in |-> Tm_output[iz - 1], iz_arg |-> iz - 1, func |-> func_select,
     kernel |-> r.kernel, z_lag |-> z_prev2, z_lag1 |-> z_prev,
     f |-> r.dxedlna_prev, f_lag |-> dxedlna_prev2,
     g |-> r.dTmdlna_prev, g_lag |-> dTmdlna_prev2,
     xe_out |-> r.xe_out, Tm_out |-> r.Tm_out]

\* a step of rec_get_xe_next1 on the history, writing xe_output[iz]
Next1(stage, func_select, r) ==
    /\ xe_output' = [xe_output EXCEPT ![iz] = r.xe_out]
    /\ z_prev2' = r.z_prev2
    /\ dxedlna_prev2' = r.dxedlna_prev2
    /\ z_prev' = r.z_prev
    /\ dxedlna_prev' = r.dxedlna_prev
    /\ call' = Call1(stage, func_select, r)

\* He recombination, Tm at steady state, lines 276-289
Stage3Step ==
    /\ pc = "s3"
    /\ Stage3Cond
    /\ \E kret \in KernelReturns(FUNC_HEI) :
       \E r \in {rec_get_xe_next1(param, z, xe_output[iz - 1], FUNC_HEI, kret, Lag)} :
             /\ Next1(3, FUNC_HEI, r)
             /\ z' = Zgrid(param, iz)
             /\ Tm_output' = [Tm_output EXCEPT ![iz] =
                   rec_Tmss(r.xe_out, FMul(param.T0, FAdd(One, z')),
                            rec_HubbleConstant(param, z'), param.fHe,
                            FMul(param.nH0, cube(FAdd(One, z'))), r.z_prev2,
                            energy_injection_rate(param, z'))]
             /\ fminus' = [fminus EXCEPT !.updates = Append(@, iz)]
             /\ \E saha \in rec_saha_xe_H(r.xe_out) :
                  Delta_xe' = FAbs(FSub(r.xe_out, saha))
    /\ iz' = NextIz(iz)
    /\ Logged(3)
    /\ UNCHANGED <<probe, pc, input, param, dTmdlna_prev, dTmdlna_prev2, oob_read>>

Stage3Exit ==
    /\ pc = "s3"
    /\ ~Stage3Cond
    /\ Delta_xe' = FZero
    /\ pc' = StageAfter(3)
    /\ nsteps' = 0
    /\ UNCHANGED <<probe, input, param, iz, z, xe_output, Tm_output, lagvars, fminus,
                   wrote_xe, wrote_Tm, wrote_stage, call, oob_read>>

\* H post-Saha phase, lines 295-301
Stage4Step ==
    /\ pc = "s4"
    /\ Stage4Cond
    /\ \E r \in xe_PostSahaH :
         /\ z' = Zgrid(param, iz)
         /\ xe_output' = [xe_output EXCEPT ![iz] = r.xe]
         /\ Delta_xe' = r.Delta_xe
         /\ Tm_output' = [Tm_output EXCEPT ![iz] =
               rec_Tmss(r.xe, FMul(param.T0, FAdd(One, z')),
                        rec_HubbleConstant(param, z'), param.fHe,
                        FMul(param.nH0, cube(FAdd(One, z'))), z_prev2,
                        energy_injection_rate(param, z'))]
    /\ iz' = NextIz(iz)
    /\ Logged(4)
    /\ UNCHANGED <<probe, pc, input, param, lagvars, fminus, call, oob_read>>

Stage4Exit ==
    /\ pc = "s4"
    /\ ~Stage4Cond
    /\ Seeding
    /\ pc' = StageAfter(4)
    /\ nsteps' = 0
    /\ UNCHANGED <<probe, input, param, iz, z, Delta_xe, xe_output, Tm_output,
                   dTmdlna_prev, dTmdlna_prev2, fminus, wrote_xe, wrote_Tm,
                   wrote_stage, call>>

\* H recombination with two-photon processes, Tm at steady state, lines 312-318
Stage5Step ==
    /\ pc = "s5"
    /\ Stage5Cond
    /\ \E kret \in KernelReturns(FUNC_H2G) :
       \E r \in {rec_get_xe_next1(param, z, xe_output[iz - 1], FUNC_H2G, kret, Lag)} :
             /\ Next1(5, FUNC_H2G, r)
             /\ z' = Zgrid(param, iz)
             /\ Tm_output' = [Tm_output EXCEPT ![iz] =
                   rec_Tmss(r.xe_out, FMul(param.T0, FAdd(One, z')),
                            rec_HubbleConstant(param, z'), param.fHe,
                            FMul(FMul(param.nH0, cube(FAdd(One, z'))), D1em6),
                            r.z_prev2, energy_injection_rate(param, z'))]
    /\ iz' = NextIz(iz)
    /\ Logged(5)
    /\ UNCHANGED <<probe, pc, input, param, Delta_xe, dTmdlna_prev, dTmdlna_prev2,
                   fminus, oob_read>>

\* Tm samples seeded as differences of the Tm history
SeedTm_diff(p, zv, zp, zp2, x3, T3, x2, T2) ==
    [dTmdlna_prev2 |-> FDiv(FSub(T2, T3), p.dlna),
     dTmdlna_prev  |-> FDiv(FSub(T2, T3), p.dlna)]
\* the lagged Tm samples seeded at lines 323-326; xk, Tk are the values read
\* at index izv - k, zv is the current z
SeedTm(p, zv, zp, zp2, x3, T3, x2, T2) ==
    [dTmdlna_prev2 |->
        rec_dTmdlna(x3, T3, FMul(p.T0, FAdd(One, zp2)), rec_HubbleConstant(p, zp2),
                    p.fHe, FMul(p.nH0, cube(FAdd(One, zv))), zp2,
                    energy_injection_rate(p, zp2)),
     dTmdlna_prev |->
        rec_dTmdlna(x2, T2, FMul(p.T0, FAdd(One, zp)), rec_HubbleConstant(p, zp),
                    p.fHe, FMul(p.nH0, cube(FAdd(One, zv))), zp,
                    energy_injection_rate(p, zp))]

Stage5Exit ==
    /\ pc = "s5"
    /\ ~Stage5Cond
    /\ \E gx3 \in Stray(iz - 3), gT3 \in Stray(iz - 3),
          gx2 \in Stray(iz - 2), gT2 \in Stray(iz - 2) :
       \E sd \in {SeedTm(param, z, z_prev, z_prev2,
                           Rd(xe_output, iz - 3, gx3), Rd(Tm_output, iz - 3, gT3),
                           Rd(xe_output, iz - 2, gx2), Rd(Tm_output, iz - 2, gT2))} :
             /\ dTmdlna_prev2' = sd.dTmdlna_prev2
             /\ dTmdlna_prev' = sd.dTmdlna_prev
    /\ oob_read' = (oob_read \/ ~InArrays(iz - 2) \/ ~InArrays(iz - 3))
    /\ pc' = StageAfter(5)
    /\ nsteps' = 0
    /\ UNCHANGED <<probe, input, param, iz, z, Delta_xe, xe_output, Tm_output, z_prev,
                   dxedlna_prev, z_prev2, dxedlna_prev2, fminus, wrote_xe,
                   wrote_Tm, wrote_stage, call>>

\* a step of rec_get_xe_next2 on the history, writing xe_output[iz] and
\* Tm_output[iz], followed by the update of z
Next2(stage, func_select) ==
    /\ \E kret \in KernelReturns(func_select) :
         \E r \in {rec_get_xe_next2(param, z, xe_output[iz - 1], Tm_output[iz - 1],
                                    func_select, kret, Lag)} :
             /\ xe_output' = [xe_output EXCEPT ![iz] = r.xe_out]
             /\ Tm_output' = [Tm_output EXCEPT ![iz] = r.Tm_out]
             /\ z_prev2' = r.z_prev2
             /\ dxedlna_prev2' = r.dxedlna_prev2
             /\ dTmdlna_prev2' = r.dTmdlna_prev2
             /\ z_prev' = r.z_prev
             /\ dxedlna_prev' = r.dxedlna_prev
             /\ dTmdlna_prev' = r.dTmdlna_prev
             /\ call' = Call2(stage, func_select, r)
    /\ z' = Zgrid(param, iz)
    /\ iz' = NextIz(iz)
    /\ Logged(stage)
    /\ UNCHANGED <<probe, pc, input, param, Delta_xe, fminus, oob_read>>

\* H recombination with two-photon processes and Tm evolution, lines 328-334
Stage6Step == pc = "s6" /\ Stage6Cond /\ Next2(6, FUNC_H2G)

\* leaving a phase whose lagged samples carry over
CarryOver(stage) ==
    /\ pc' = StageAfter(stage)
    /\ nsteps' = 0
    /\ UNCHANGED <<probe, input, param, iz, z, Delta_xe, xe_output, Tm_output, lagvars,
                   fminus, wrote_xe, wrote_Tm, wrote_stage, call, oob_read>>

Stage6Exit == pc = "s6" /\ ~Stage6Cond /\ CarryOver(6)

\* radiative transfer switched off, lines 338-344
Stage7Step == pc = "s7" /\ Stage7Cond /\ Next2(7, FUNC_HMLA)

Stage7Exit == pc = "s7" /\ ~Stage7Cond /\ CarryOver(7)

\* Peebles model for z < 20, lines 350-356
Stage8Step == pc = "s8" /\ Stage8Cond /\ Next2(8, FUNC_PEEBLES)

\* a return that releases nothing
Cleanup_leak ==
    /\ pc = "s8"
    /\ ~Stage8Cond
    /\ pc' = StageAfter(8)
    /\ nsteps' = 0
    /\ UNCHANGED <<probe, input, param, iz, z, Delta_xe, xe_output, Tm_output, lagvars,
                   fminus, wrote_xe, wrote_Tm, wrote_stage, call, oob_read>>

\* cleanup and return, lines 358-364
Cleanup ==
    /\ pc = "s8"
    /\ ~Stage8Cond
    /\ fminus' = [fminus EXCEPT !.released = @ + 1]
    /\ pc' = StageAfter(8)
    /\ nsteps' = 0
    /\ UNCHANGED <<probe, input, param, iz, z, Delta_xe, xe_output, Tm_output, lagvars,
                   wrote_xe, wrote_Tm, wrote_stage, call, oob_read>>

Next ==
    \/ GetCosmoparam
    \/ BuildStart
    \/ Stage1Step \/ Stage1Exit
    \/ Stage2Step \/ Stage2Exit
    \/ Stage3Step \/ Stage3Exit
    \/ Stage4Step \/ Stage4Exit
    \/ Stage5Step \/ Stage5Exit
    \/ Stage6Step \/ Stage6Exit
    \/ Stage7Step \/ Stage7Exit
    \/ Stage8Step \/ Cleanup

Spec == Init /\ [][Next]_vars

\* the function runs to completion: no step waits on anything
FairSpec == Spec /\ WF_vars(Next)

\* ------------------------------------------------------------------------
\* rec_get_cosmoparam's grid length and the multistep update on their own
\* ------------------------------------------------------------------------

\* the grids the length is computed for: zstart >= zend, dlna > 0
GridEnds  == {FZero, One, I30, I700, I8000}
GridSteps == {D4em1, D5em1, One, D15em1, I3}

GridInit ==
    /\ Fresh("off", << >>)
    /\ probe \in {g \in {[zstart |-> a, zend |-> b, dlna |-> d, nz |-> -1] :
                               a \in GridEnds, b \in GridEnds, d \in GridSteps} :
                     FLe(g.zend, g.zstart)}

\* lines 52-56: the grid is set and nz computed from it
GridApply ==
    /\ probe.nz = -1
    /\ probe' = [probe EXCEPT !.nz = GridLength(probe.zstart, probe.zend, probe.dlna)]
    /\ UNCHANGED mainvars

GridSpec == GridInit /\ [][GridApply]_vars

\* number of consecutive updates followed
MaxSteps == 4

StepStarts == {FZero, One, D108em2, Dm15em1}
StepSlopes == {FZero, One, Dm25em2, D1em1, Dm97}
StepSizes  == {D5em1, D15em1, D849em7}

StepInit ==
    /\ Fresh("off", << >>)
    /\ probe \in {[y0 |-> a, k |-> b, dlna |-> d, n |-> 0, y |-> a] :
                     a \in StepStarts, b \in StepSlopes, d \in StepSizes}

\* lines 165-170 with a kernel that returns k at every call: the lagged
\* samples all equal k
StepApply ==
    /\ probe.n < MaxSteps
    /\ probe' = [probe EXCEPT !.n = @ + 1,
                              !.y = MultiStep(probe.y, probe.k, probe.k, probe.dlna)]
    /\ UNCHANGED mainvars

StepSpec == StepInit /\ [][StepApply]_vars

\* the energy-injection parameters and redshifts the rate is evaluated for
InjAnn    == {FZero, One, D1em6}
InjAlpha  == {FZero, One, D25em2}
InjDec    == {FZero, D1em9}
InjZ      == {FZero, I3, I30, I31, I700, I2500, I2501, I8000}

InjInit ==
    /\ Fresh("off", << >>)
    /\ probe \in {[omh2 |-> D14em2, p_ann |-> a, alpha |-> b, p_dec |-> d, z |-> zz,
                    eff |-> Unset, rate |-> Unset] :
                     a \in InjAnn, b \in InjAlpha, d \in InjDec, zz \in InjZ}

\* lines 366-389 on the parameters and the redshift of the probe
InjApply ==
    /\ probe.rate = Unset
    /\ probe' = [probe EXCEPT !.eff = p_annihilation_at_z(probe, probe.z),
                              !.rate = energy_injection_rate(probe, probe.z)]
    /\ UNCHANGED mainvars

InjSpec == InjInit /\ [][InjApply]_vars

\* the cosmologies and redshifts the Hubble rate is evaluated for
HubOmh2  == {D14em2, One}
HubOdeh2 == {FZero, D31em2}
HubW0    == {Im1, Dm25em2}
HubWa    == {FZero, D5em1, Dm25em2}
HubT0    == {D2726em3, One}
HubZ     == {FZero, I3, I30, I700, I8000}

HubInit ==
    /\ Fresh("off", << >>)
    /\ probe \in {[omh2 |-> m, okh2 |-> FZero, odeh2 |-> de, w0 |-> w, wa |-> wa,
                    T0 |-> t, Nnueff |-> D3046em3, z |-> zz,
                    H |-> Unset, H0 |-> Unset, rho_de |-> Unset] :
                     m \in HubOmh2, de \in HubOdeh2, w \in HubW0, wa \in HubWa,
                     t \in HubT0, zz \in HubZ}

\* lines 65-95 on the parameters of the probe, at its redshift and at z = 0
HubApply ==
    /\ probe.H = Unset
    /\ probe' = [probe EXCEPT !.H = rec_HubbleConstant(probe, probe.z),
                              !.H0 = rec_HubbleConstant(probe, FZero),
                              !.rho_de = rho_DE(probe, FAdd(One, probe.z))]
    /\ UNCHANGED mainvars

HubSpec == HubInit /\ [][HubApply]_vars

\* ------------------------------------------------------------------------
\* Properties
\* ------------------------------------------------------------------------

\* C1: for every input and every sequence of values the collaborators
\* return, rec_build_history returns, and the grid index equals nz when it
\* does.
C1_Terminates == <>(pc = "done" /\ iz = param.nz)

\* a run that returned after the first loop was ended by the bound iz < nz
\* alone, its exit test never satisfied
C1_GridExhausted ==
    /\ pc = "done"
    /\ iz = param.nz
    /\ Len(wrote_stage) = param.nz
    /\ \A i \in 1..param.nz : wrote_stage[i] = 1

\* C2: xe_output and Tm_output are written in increasing index order from
\* 0, each index below nz once and none at or above nz; the indices not yet
\* reached are untouched, and on return both arrays are full.
C2_WrittenOnceInOrder ==
    pc \notin {"param", "ready"} =>
        /\ iz <= param.nz
        /\ Len(wrote_xe) = iz
        /\ Len(wrote_Tm) = iz
        /\ \A k \in 1..iz : wrote_xe[k] = k - 1 /\ wrote_Tm[k] = k - 1
        /\ \A i \in 0..(param.nz - 1) :
             /\ (i < iz) = (xe_output[i] # Unset)
             /\ (i < iz) = (Tm_output[i] # Unset)
        /\ (pc = "done" => iz = param.nz)

\* a run that returned after the helium loop (phase 3) ran to the end of
\* the grid
C2_FullAfterExhaustion ==
    /\ pc = "done"
    /\ wrote_xe = [k \in 1..param.nz |-> k - 1]
    /\ wrote_Tm = [k \in 1..param.nz |-> k - 1]
    /\ wrote_stage[param.nz] = 3
    /\ \A i \in 0..(param.nz - 1) : xe_output[i] # Unset /\ Tm_output[i] # Unset

\* C3: the phases that write successive indices form a non-decreasing
\* sequence, and no phase below the last writer is entered again.
C3_StagesNonDecreasing ==
    /\ \A i \in 1..Len(wrote_stage) : \A j \in i..Len(wrote_stage) :
         wrote_stage[i] <= wrote_stage[j]
    /\ \A k \in 1..8 :
         (pc = StageAfter(k) /\ wrote_stage # << >>) =>
             wrote_stage[Len(wrote_stage)] <= k + 1

\* a run in which at least five different phases wrote
C3_ManyStages ==
    /\ pc = "done"
    /\ Cardinality({wrote_stage[i] : i \in 1..Len(wrote_stage)}) >= 5

C5_ValuesInRange ==
    (pc \notin {"param", "ready"} /\ ValidInput(param) /\ ~oob_read) =>
        \A i \in 0..(iz - 1) :
            /\ FGe(xe_output[i], FZero)
            /\ FLe(xe_output[i], FAdd(One, param.fHe))
            /\ FGt(Tm_output[i], FZero)

\* C6 as stated, for the scalars read: parameters that violate a
\* precondition are rejected, so every configuration that rec_get_cosmoparam
\* hands back, and rec_build_history runs on, satisfies the preconditions.
C6_InvalidRejected == pc # "param" => ValidInput(param)

\* C7 as stated: nz = 2 + ceil(ln((1+zstart)/(1+zend))/dlna).
C7_GridLengthCeil ==
    probe.nz # -1 =>
        probe.nz = 2 + FCeil(GridQuotient(probe.zstart, probe.zend, probe.dlna))

\* C7: nz is the floor of 2 + ln((1+zstart)/(1+zend))/dlna, that is
\* nz <= 2 + q < nz + 1 and nz = 2 + floor(q) for the quotient q.
C7_GridLengthFloor ==
    probe.nz # -1 =>
        /\ FLe(FInt(probe.nz),
               FAdd(Two, GridQuotient(probe.zstart, probe.zend, probe.dlna)))
        /\ FLt(FAdd(Two, GridQuotient(probe.zstart, probe.zend, probe.dlna)),
               FInt(probe.nz + 1))
        /\ probe.nz = 2 + FFloor(GridQuotient(probe.zstart, probe.zend, probe.dlna))

\* a length computed from a quotient that is not an integer: one less than
\* the value rounded up
C7_FractionalQuotient ==
    /\ probe.nz # -1
    /\ FLt(probe.zend, probe.zstart)
    /\ FFloor(GridQuotient(probe.zstart, probe.zend, probe.dlna))
         # FCeil(GridQuotient(probe.zstart, probe.zend, probe.dlna))
    /\ probe.nz = 1 + FCeil(GridQuotient(probe.zstart, probe.zend, probe.dlna))

\* the rounding error of one operation, relative to its result
Eps == <<0, 2^(MantBits - 1), 1 - 2 * MantBits>>

\* the inputs for which no operation of the update rounds
StepsExact ==
    /\ probe.y0 \in {FZero, One, Dm15em1}
    /\ probe.k \in {FZero, One, Dm25em2, Dm97}
    /\ probe.dlna \in {D5em1, D15em1}

\* C9: with the current and the lagged derivative both k, n updates from y0
\* give y0 + k*n*dlna: exactly where no operation rounds, and otherwise to
\* within the rounding errors of the 4(n+1) operations.
C9_ConstantDerivativeLinear ==
    /\ StepsExact =>
         probe.y = FAdd(probe.y0, FMul(FMul(probe.k, FInt(probe.n)), probe.dlna))
    /\ FLe(FAbs(FSub(probe.y,
                     FAdd(probe.y0, FMul(FMul(probe.k, FInt(probe.n)), probe.dlna)))),
           FMul(FMul(FInt(4 * (probe.n + 1)), Eps),
                FAdd(FAbs(probe.y0),
                     FAbs(FMul(FMul(probe.k, FInt(probe.n)), probe.dlna)))))

\* the last of the updates followed, for a non-zero derivative and a
\* non-zero start
C9_AfterMaxSteps ==
    /\ probe.n = MaxSteps
    /\ probe.k = Dm25em2
    /\ probe.y0 = One
    /\ probe.dlna = D15em1
    /\ probe.y # probe.y0

\* C8: the call that writes index i is made at z(i-1) on xe[i-1], and
\* writes xe[i] = xe[i-1] + dlna*(1.25*f - 0.25*f2), where f is the
\* derivative the call evaluates and f2 the lagged sample stored with the
\* redshift z(i-3), two steps before i-1; in phases 6 to 8 the same holds of
\* Tm[i] and the dTm/dlna samples.
C8_SampleTwoStepsBack ==
    call.stage # 0 =>
        /\ call.stage \in {3, 5, 6, 7, 8}
        /\ call.z1 = Zgrid(param, call.out - 1)
        /\ call.xe_in = xe_output[call.out - 1]
        /\ call.z_lag = Zgrid(param, call.out - 3)
        /\ xe_output[call.out] =
               FAdd(call.xe_in,
                    FMul(param.dlna, FSub(FMul(D125em2, call.f),
                                          FMul(D25em2, call.f_lag))))
        /\ call.stage >= 6 =>
               /\ call.Tm_in = Tm_output[call.out - 1]
               /\ Tm_output[call.out] =
                      FAdd(call.Tm_in,
                           FMul(param.dlna, FSub(FMul(D125em2, call.g),
                                                 FMul(D25em2, call.g_lag))))

\* the second step of phase 6, every value read so far inside the arrays,
\* the current and the lagged derivative differing for xe and for Tm
C8_SecondStepOfPhase6 ==
    /\ call.stage = 6
    /\ nsteps = 2
    /\ call.f # call.f_lag
    /\ call.g # call.g_lag
    /\ ~oob_read

\* a phase that seeds its lagged xe samples has just been entered, and the
\* history holds the four values the seeds read
SeededEntry == pc \in {"s3", "s5"} /\ nsteps = 0 /\ iz >= 4

\* C10 as stated, at the entries that seed: the sample
\* (xe[i-1]-xe[i-3])/(2 dlna) is stored with z(i-1) and the sample
\* (xe[i-2]-xe[i-4])/(2 dlna) with z(i-2).
C10_SeedsLabelledAsStated ==
    SeededEntry =>
        /\ dxedlna_prev =
               FDiv(FDiv(FSub(xe_output[iz - 1], xe_output[iz - 3]), Two), param.dlna)
        /\ z_prev = Zgrid(param, iz - 1)
        /\ dxedlna_prev2 =
               FDiv(FDiv(FSub(xe_output[iz - 2], xe_output[iz - 4]), Two), param.dlna)
        /\ z_prev2 = Zgrid(param, iz - 2)

\* C10: at the entry of phase 3 and of phase 5 with first written index
\* i >= 4, the sample (xe[i-1]-xe[i-3])/(2 dlna) is stored with z(i-2), the
\* index it is centred on, and the sample (xe[i-2]-xe[i-4])/(2 dlna) with
\* z(i-3).
C10_SeedsCentred ==
    SeededEntry =>
        /\ dxedlna_prev =
               FDiv(FDiv(FSub(xe_output[iz - 1], xe_output[iz - 3]), Two), param.dlna)
        /\ z_prev = Zgrid(param, iz - 2)
        /\ dxedlna_prev2 =
               FDiv(FDiv(FSub(xe_output[iz - 2], xe_output[iz - 4]), Two), param.dlna)
        /\ z_prev2 = Zgrid(param, iz - 3)

\* phase 5 entered with indices left and two different seeds
C10_SeededPhase5 ==
    /\ pc = "s5"
    /\ nsteps = 0
    /\ iz >= 4
    /\ iz < param.nz
    /\ dxedlna_prev # dxedlna_prev2
    /\ dxedlna_prev # FZero

\* the centred difference of the history arr around index j
CentredDiff(arr, j) == FDiv(FDiv(FSub(arr[j + 1], arr[j - 1]), Two), param.dlna)

\* C11 as stated: at the entry of every ODE phase (3, 5, 6, 7, 8) the lagged
\* xe samples are the centred differences of the xe history, and at the
\* entry of phase 6 the lagged Tm samples are the centred differences of the
\* Tm history.
C11_SeededAtEveryEntry ==
    (pc \in {"s3", "s5", "s6", "s7", "s8"} /\ nsteps = 0 /\ iz >= 4) =>
        /\ dxedlna_prev = CentredDiff(xe_output, iz - 2)
        /\ dxedlna_prev2 = CentredDiff(xe_output, iz - 3)
        /\ pc = "s6" =>
               /\ dTmdlna_prev = CentredDiff(Tm_output, iz - 2)
               /\ dTmdlna_prev2 = CentredDiff(Tm_output, iz - 3)

\* C11: the lagged xe samples are seeded by centred differences only on
\* entering phases 3 and 5; entering phase 6 leaves them as phase 5 left them
\* and sets the two lagged Tm samples to rec_dTmdlna evaluated on the history
\* at indices i-3 and i-2 with the stored redshifts; entering phases 7 and 8
\* changes no lagged sample.
C11_SeedingSteps ==
    [][ /\ (pc \in {"s2", "s4"} /\ pc' # pc /\ iz >= 4) =>
               /\ dxedlna_prev' = CentredDiff(xe_output, iz - 2)
               /\ dxedlna_prev2' = CentredDiff(xe_output, iz - 3)
        /\ (pc = "s5" /\ pc' # pc) =>
               /\ UNCHANGED <<z_prev, dxedlna_prev, z_prev2, dxedlna_prev2>>
               /\ iz >= 3 =>
                    /\ dTmdlna_prev2' =
                         rec_dTmdlna(xe_output[iz - 3], Tm_output[iz - 3],
                                     FMul(param.T0, FAdd(One, z_prev2)),
                                     rec_HubbleConstant(param, z_prev2), param.fHe,
                                     FMul(param.nH0, cube(FAdd(One, z))), z_prev2,
                                     energy_injection_rate(param, z_prev2))
                    /\ dTmdlna_prev' =
                         rec_dTmdlna(xe_output[iz - 2], Tm_output[iz - 2],
                                     FMul(param.T0, FAdd(One, z_prev)),
                                     rec_HubbleConstant(param, z_prev), param.fHe,
                                     FMul(param.nH0, cube(FAdd(One, z))), z_prev,
                                     energy_injection_rate(param, z_prev))
        /\ (pc \in {"s6", "s7"} /\ pc' # pc) => UNCHANGED lagvars
      ]_vars

\* phase 8 entered with indices left, after phase 7 has stepped, with a
\* lagged xe sample that is not the centred difference of the history
C11_CarriedIntoPhase8 ==
    /\ pc = "s8"
    /\ nsteps = 0
    /\ iz >= 4
    /\ iz < param.nz
    /\ wrote_stage[iz] = 7
    /\ dxedlna_prev # CentredDiff(xe_output, iz - 2)
    /\ dTmdlna_prev # CentredDiff(Tm_output, iz - 2)

\* the efficiency of the middle branch at redshift zz
MidEfficiency(q, zz) ==
    FMul(q.p_ann,
         FExp(FMul(q.alpha, FSub(FMul(FLog(FDiv(FAdd(One, zz), I2501)),
                                      FLog(FDiv(FAdd(One, zz), I2501))),
                                 D838490285em9))))

\* the constant efficiency of the high branch
HighEfficiency(q) == FMul(q.p_ann, FExp(FMul(FNeg(q.alpha), D838490285em9)))

\* C12: the efficiency is the high-z constant for z > 2500, the middle form
\* for 30 < z <= 2500 and the middle form at z = 30 for every z <= 30; the
\* middle form at z = 2500 equals the high-z constant; the rate is
\* (omh2*4.827652e-18)^2 (1+z)^6 times the efficiency plus
\* 1.932e-10 (1+z)^3 p_dec.
C12_BranchesContinuous ==
    probe.rate # Unset =>
        /\ FGt(probe.z, I2500) => probe.eff = HighEfficiency(probe)
        /\ (FGt(probe.z, I30) /\ FLe(probe.z, I2500)) =>
               probe.eff = MidEfficiency(probe, probe.z)
        /\ FLe(probe.z, I30) => probe.eff = MidEfficiency(probe, I30)
        /\ MidEfficiency(probe, I2500) = HighEfficiency(probe)
        /\ probe.rate =
               FAdd(FMul(FMul(FPowN(FMul(probe.omh2, D4827652em24), 2),
                              FPowN(FAdd(One, probe.z), 6)), probe.eff),
                    FMul(FMul(D1932em13, FPowN(FAdd(One, probe.z), 3)), probe.p_dec))

\* the rate evaluated below z = 30 with an efficiency that depends on z in
\* the middle branch
C12_BelowLowBoundary ==
    /\ probe.rate # Unset
    /\ FLt(probe.z, I30)
    /\ probe.alpha # FZero
    /\ probe.p_ann # FZero
    /\ probe.eff # HighEfficiency(probe)
    /\ probe.rate # FZero

\* x and y agree to within 64 units of rounding of y
Close(x, y) == FLe(FAbs(FSub(x, y)), FMul(FMul(FInt(64), Eps), FAbs(y)))

\* the Hubble rate has been evaluated for a cosmology with matter as its
\* only non-zero density parameter
MatterOnly == probe.H # Unset /\ probe.okh2 = FZero /\ probe.odeh2 = FZero

\* C13 as stated: with matter the only non-zero density parameter,
\* H(z) = H(0) (1+z)^1.5.
C13_EinsteinDeSitter ==
    MatterOnly =>
        Close(probe.H, FMul(probe.H0, FPow(FAdd(One, probe.z), D15em1)))

\* the photon density ogh2 (1+z)^4 of the probe, ogh2 = 4.48162687719e-7 T0^4
PhotonRho ==
    FMul(FMul(FMul(FMul(
        FMul(FMul(FMul(FMul(D448162688em15, probe.T0), probe.T0), probe.T0), probe.T0),
        FAdd(One, probe.z)), FAdd(One, probe.z)), FAdd(One, probe.z)), FAdd(One, probe.z))

\* the matter density omh2 (1+z)^3 of the probe
MatterRho ==
    FMul(FMul(FMul(probe.omh2, FAdd(One, probe.z)), FAdd(One, probe.z)),
         FAdd(One, probe.z))

\* C13: with matter the only non-zero density parameter and T0 > 0,
\* H(z) = 3.2407792896393e-18 sqrt(omh2 (1+z)^3 + ogh2 (1+z)^4
\* + 0.227107317660239 Nnueff ogh2 (1+z)^4) with ogh2 = 4.48162687719e-7 T0^4:
\* the photon density is positive and H(z) is never below the matter-only
\* rate 3.2407792896393e-18 sqrt(omh2 (1+z)^3).
C13_MatterAndRadiation ==
    MatterOnly =>
        /\ probe.H =
             FMul(D324077929em26,
                  FSqrt(FAdd(FAdd(MatterRho, PhotonRho),
                             FMul(FMul(D227107318em9, PhotonRho), probe.Nnueff))))
        /\ FGt(PhotonRho, FZero)
        /\ FGe(probe.H, FMul(D324077929em26, FSqrt(MatterRho)))

\* the rate evaluated at a high redshift for matter only, where it is away
\* from the Einstein-de Sitter form
C13_RadiationDominates ==
    /\ MatterOnly
    /\ FGe(probe.z, I700)
    /\ ~Close(probe.H, FMul(probe.H0, FPow(FAdd(One, probe.z), D15em1)))

\* the dark-energy density has been evaluated
DarkEnergyDone == probe.rho_de # Unset

\* C18 as stated: rho_DE = odeh2 a^(-3(1+w0)) exp(3 wa ln a), a = 1/(1+z).
C18_DarkEnergyLnA ==
    DarkEnergyDone =>
        Close(probe.rho_de,
              FMul(FMul(probe.odeh2,
                        FPow(FDiv(One, FAdd(One, probe.z)),
                             FMul(Im3, FAdd(One, probe.w0)))),
                   FExp(FMul(FMul(I3, probe.wa),
                             FLog(FDiv(One, FAdd(One, probe.z)))))))

\* C18: rho_DE = odeh2 (1+z)^(3(1+w0)) exp(3 wa (ln(1+z) - 1 + 1/(1+z))),
\* that is odeh2 a^(-3(1+w0)) exp(3 wa (-ln a - 1 + a)) with a = 1/(1+z); it
\* agrees with odeh2 a^(-3(1+w0)) exp(3 wa ln a) where wa = 0 or z = 0.
C18_DarkEnergyCPL ==
    DarkEnergyDone =>
        /\ probe.rho_de =
             FMul(FMul(probe.odeh2,
                       FPow(FAdd(One, probe.z), FMul(I3, FAdd(One, probe.w0)))),
                  FExp(FMul(FMul(I3, probe.wa),
                            FAdd(FSub(FLog(FAdd(One, probe.z)), One),
                                 FDiv(One, FAdd(One, probe.z))))))
        /\ (probe.wa = FZero \/ probe.z = FZero) =>
             Close(probe.rho_de,
                   FMul(FMul(probe.odeh2,
                             FPow(FDiv(One, FAdd(One, probe.z)),
                                  FMul(Im3, FAdd(One, probe.w0)))),
                        FExp(FMul(FMul(I3, probe.wa),
                                  FLog(FDiv(One, FAdd(One, probe.z)))))))

\* a dark-energy density evaluated with wa # 0 away from z = 0
C18_EvolvingDarkEnergy ==
    /\ DarkEnergyDone
    /\ probe.odeh2 # FZero
    /\ probe.wa # FZero
    /\ FGt(probe.z, FZero)
    /\ probe.w0 # Im1

\* the mechanism tags, the tag each ODE phase passes, and the kernel named
\* by each tag
Tags == {FUNC_HEI, FUNC_H2G, FUNC_HMLA, FUNC_PEEBLES}
TagOfStage == [st \in {3, 5, 6, 7, 8} |->
                 IF st = 3 THEN FUNC_HEI
                 ELSE IF st \in {5, 6} THEN FUNC_H2G
                 ELSE IF st = 7 THEN FUNC_HMLA ELSE FUNC_PEEBLES]
KernelNamed == [t \in Tags |->
                  IF t = FUNC_HEI THEN "rec_helium_dxedt"
                  ELSE IF t = FUNC_H2G THEN "rec_HMLA_2photon_dxedlna"
                  ELSE IF t = FUNC_HMLA THEN "rec_HMLA_dxedlna"
                  ELSE "rec_HPeebles_dxedlna"]

\* every call passes the tag of its phase and evaluates the kernel named by
\* that tag
StepsUseOwnKernel ==
    call.stage # 0 =>
        /\ call.func = TagOfStage[call.stage]
        /\ call.kernel = KernelNamed[call.func]

\* C14 as stated: the tag is fixed per phase, and each of the four tags
\* resolves to the kernel of its name in rec_get_xe_next1 and in
\* rec_get_xe_next2.
C14_TagsResolveInBoth ==
    /\ StepsUseOwnKernel
    /\ \A t \in Tags : Kernel1(t) = KernelNamed[t] /\ Kernel2(t) = KernelNamed[t]

\* C14: the tag is fixed per phase and every step evaluates the kernel named
\* by its tag; rec_get_xe_next2 resolves each of the four tags to the kernel
\* of its name; rec_get_xe_next1 does so for the helium, two-photon and
\* simplified tags and resolves the Peebles tag to the simplified kernel, a
\* tag it is never called with.
C14_TagsFixedPerStage ==
    /\ StepsUseOwnKernel
    /\ \A t \in Tags : Kernel2(t) = KernelNamed[t]
    /\ \A t \in Tags \ {FUNC_PEEBLES} : Kernel1(t) = KernelNamed[t]
    /\ Kernel1(FUNC_PEEBLES) = "rec_HMLA_dxedlna"
    /\ call.stage \in {3, 5} => call.func \in {FUNC_HEI, FUNC_H2G}

\* a run that has stepped in phases 3 and 7 and has just stepped in phase 8
C14_PeeblesAfterOthers ==
    /\ call.stage = 8
    /\ call.kernel = "rec_HPeebles_dxedlna"
    /\ \E i \in 1..Len(wrote_stage) : wrote_stage[i] = 3
    /\ \E i \in 1..Len(wrote_stage) : wrote_stage[i] = 7

\* the steady-state closed form: Tr / (1 + H/(c Tr^4) (1+xe+fHe)/xe)
\* + 1/(c Tr^4 xe) 2/(3 k_b) (1+2xe)/(3 nH 1e6) rate, c = 4.91466895548409e-22
SteadyTm(xe, Tr, H, fHe, nH, rate) ==
    FAdd(FDiv(Tr,
              FAdd(One,
                   FDiv(FMul(FDiv(FDiv(FDiv(FDiv(FDiv(H, D491466896em30), Tr), Tr), Tr), Tr),
                             FAdd(FAdd(One, xe), fHe)),
                        xe))),
         FMul(FDiv(FMul(FDiv(FMul(FDiv(One,
                                       FMul(FMul(D491466896em30, FPowN(Tr, 4)), xe)),
                                  Two),
                             FMul(I3, D13806503em30)),
                        FAdd(One, FMul(Two, xe))),
                   FMul(FMul(I3, nH), D1e6)),
              rate))

\* the steady-state Tm of index i with the hydrogen density scaled by unit
SteadyTmAt(i, unit) ==
    SteadyTm(xe_output[i], FMul(param.T0, FAdd(One, Zgrid(param, i))),
             rec_HubbleConstant(param, Zgrid(param, i)), param.fHe,
             FMul(FMul(param.nH0, cube(FAdd(One, Zgrid(param, i)))), unit),
             energy_injection_rate(param, Zgrid(param, i)))

\* the rule that wrote Tm[i] in phase st
TmRule(i, st) ==
    IF st \in {1, 2} THEN
        Tm_output[i] = FMul(param.T0, FAdd(One, Zgrid(param, i)))
    ELSE IF st \in {3, 4} THEN Tm_output[i] = SteadyTmAt(i, One)
    ELSE IF st = 5 THEN Tm_output[i] = SteadyTmAt(i, D1em6)
    ELSE call.out = i =>
             /\ call.stage = st
             /\ Tm_output[i] = MultiStep(Tm_output[i - 1], call.g, call.g_lag, param.dlna)

\* C15: Tm[i] is T0 (1+z(i)) where phase 1 or 2 wrote index i, the
\* steady-state closed form on xe[i] at z(i) where phase 3, 4 or 5 wrote it
\* (with the hydrogen density nH0 (1+z(i))^3 in phases 3 and 4 and
\* nH0 (1+z(i))^3 1e-6 in phase 5), and the multistep update from Tm[i-1]
\* where phase 6, 7 or 8 wrote it.
\* Stated of the index written last: an index is written once, so this covers
\* every index at the step that writes it.
C15_TmRuleByStage ==
    Len(wrote_stage) > 0 =>
        TmRule(Len(wrote_stage) - 1, wrote_stage[Len(wrote_stage)])

\* a finished run with energy injection in which phases 2, 4 and 8 wrote
\* indices and the steady-state Tm is away from the radiation temperature
C15_AllRulesUsed ==
    /\ pc = "done"
    /\ param.p_dec # FZero
    /\ \A st \in {2, 4, 8} : \E k \in 1..Len(wrote_stage) : wrote_stage[k] = st
    /\ \E k \in 1..Len(wrote_stage) :
         /\ wrote_stage[k] \in {3, 4}
         /\ Tm_output[k - 1] # FMul(param.T0, FAdd(One, Zgrid(param, k - 1)))

\* C16: phase 3 entered with i < nz takes a step; it takes a further step
\* only with i < nz and Delta_xe > 1e-4 or z > 1650 for the index written
\* last; it never ends with indices left while Delta_xe > 1e-4 or z > 1650,
\* and for valid parameters it ends with indices left only when
\* Delta_xe <= 1e-4 and z <= 1650.
C16_Stage3Exit ==
    [][ /\ (pc = "s3" /\ pc' # "s3") =>
               /\ nsteps >= 1 \/ iz = param.nz
               /\ iz < param.nz =>
                    /\ ~FGt(Delta_xe, D1em4) /\ ~FGt(z, FInt(1650))
                    /\ ValidInput(param) =>
                         FLe(Delta_xe, D1em4) /\ FLe(z, FInt(1650))
        /\ (pc = "s3" /\ pc' = "s3") =>
               /\ iz < param.nz
               /\ nsteps = 0 \/ FGt(Delta_xe, D1em4) \/ FGt(z, FInt(1650))
               /\ xe_output'[iz] # Unset
               /\ iz' = iz + 1
      ]_vars

\* phase 3 has ended after two steps or more with indices left
C16_ExitedOnTest ==
    /\ pc = "s4"
    /\ nsteps = 0
    /\ iz < param.nz
    /\ iz >= 2
    /\ wrote_stage[iz] = 3
    /\ wrote_stage[iz - 1] = 3
    /\ ValidInput(param)

\* 1 - Tm[i]/T0/(1+z(i)) for the written index i
TmLag(i) ==
    FSub(One, FDiv(FDiv(Tm_output[i], param.T0), FAdd(One, Zgrid(param, i))))

\* C17: phase 5 writes index i only with i < nz, 1 - Tm[i-1]/Tr(i-1) < 5e-4
\* and z(i-1) > 700; for valid parameters it ends with indices left only
\* when 1 - Tm/Tr >= 5e-4 or z <= 700 for the index written last; phase 6
\* writes index i only with z(i-1) > 700, so after an end of phase 5 on
\* z <= 700 the next index is written by phase 7 or 8.
C17_Stage5Exit ==
    [][ /\ (pc = "s5" /\ pc' = "s5") =>
               /\ iz < param.nz
               /\ FLt(TmLag(iz - 1), D5em4)
               /\ FGt(Zgrid(param, iz - 1), FInt(700))
        /\ (pc = "s5" /\ pc' # "s5" /\ iz < param.nz) =>
               /\ ~(FLt(TmLag(iz - 1), D5em4) /\ FGt(Zgrid(param, iz - 1), FInt(700)))
               /\ ValidInput(param) =>
                    FGe(TmLag(iz - 1), D5em4) \/ FLe(Zgrid(param, iz - 1), FInt(700))
        /\ (pc = "s6" /\ pc' = "s6") => FGt(Zgrid(param, iz - 1), FInt(700))
        /\ (pc = "s6" /\ iz' = iz + 1) => pc' = "s6"
        /\ (iz' = iz + 1 /\ iz >= 1 /\ ~FGt(Zgrid(param, iz - 1), FInt(700))
              /\ wrote_stage[iz] = 5) => pc \in {"s7", "s8"}
      ]_vars

\* phase 5 has stepped and ended at z <= 700 with its Tm test still passing,
\* phase 6 has ended without a step, and phase 7 is entered with indices left
C17_ExitedBelow700 ==
    /\ pc = "s7"
    /\ nsteps = 0
    /\ iz < param.nz
    /\ wrote_stage[iz] = 5
    /\ FLe(z, FInt(700))
    /\ FLt(TmLag(iz - 1), D5em4)

\* the indices written by phase 3, in the order written
WrittenByStage3 == SelectSeq(wrote_xe, LAMBDA i : wrote_stage[i + 1] = 3)

\* C19: from the first loop on, the photon occupation history has nz columns
\* and keeps them; it is released once, at the return after the last loop,
\* and not before; update_fminus_Saha has been called exactly with the
\* indices written by phase 3, once each, in increasing order, all in
\* [0, nz).
C19_SpectralBuffer ==
    /\ pc \in {"s1", "s2", "s3", "s4", "s5", "s6", "s7", "s8", "done"} =>
           fminus.cols = param.nz
    /\ fminus.released = (IF pc = "done" THEN 1 ELSE 0)
    /\ fminus.updates = WrittenByStage3
    /\ \A j \in 1..Len(fminus.updates) :
           /\ fminus.updates[j] \in 0..(param.nz - 1)
           /\ j > 1 => fminus.updates[j - 1] < fminus.updates[j]

\* a finished run in which phase 3 wrote two indices or more
C19_ReleasedAfterUpdates ==
    /\ pc = "done"
    /\ fminus.released = 1
    /\ fminus.cols = param.nz
    /\ Len(fminus.updates) >= 2
    /\ Len(fminus.updates) < iz

\* C20: on a grid of more than four points no read of the output arrays
\* falls outside [0, nz): the seeding reads at the entries of phases 3, 5
\* and 6 never use a negative index.
C20_SeedReadsInRange ==
    param.nz > 4 => ~oob_read

\* C21: the last call of rec_get_xe_next1 or rec_get_xe_next2, which wrote
\* index i, was given the grid redshift z(i-1), the state xe[i-1] (and
\* Tm[i-1] in rec_get_xe_next2), the index i-1, and lagged redshifts
\* z_prev = z(i-2) and z_prev2 = z(i-3); after it z_prev = z(i-1) and
\* z_prev2 = z(i-2), which the next call receives.
C21_CallArguments ==
    call.stage # 0 =>
        /\ call.z1 = Zgrid(param, call.out - 1)
        /\ call.iz_arg = call.out - 1
        /\ call.xe_in = xe_output[call.out - 1]
        /\ call.stage \in {6, 7, 8} => call.Tm_in = Tm_output[call.out - 1]
        /\ call.z_lag1 = Zgrid(param, call.out - 2)
        /\ call.z_lag = Zgrid(param, call.out - 3)
        /\ call.out = iz - 1 =>
              /\ z = Zgrid(param, iz - 1)
              /\ z_prev = Zgrid(param, iz - 2)
              /\ z_prev2 = Zgrid(param, iz - 3)

\* the first call of phase 7, on samples carried over from earlier calls
C21_FirstCallAfterCarryOver ==
    /\ call.stage = 7 /\ nsteps = 1
    /\ call.out >= 3
    /\ wrote_stage[call.out] \in {3, 5, 6}
    /\ call.z_lag = Zgrid(param, call.out - 3)
    /\ call.z_lag # call.z_lag1 /\ call.z_lag1 # call.z1

\* rec_dTmdlna with every argument taken at grid index j and the hydrogen
\* density in the units rec_get_xe_next2 passes (nH * 1e-6)
dTmdlnaAt(j) ==
    rec_dTmdlna(xe_output[j], Tm_output[j], FMul(param.T0, FAdd(One, Zgrid(param, j))),
                rec_HubbleConstant(param, Zgrid(param, j)), param.fHe,
                FMul(FMul(param.nH0, cube(FAdd(One, Zgrid(param, j)))), D1em6),
                Zgrid(param, j), energy_injection_rate(param, Zgrid(param, j)))

\* C22: at the entry of phase 6 the two seeded dTm/dlna samples are
\* rec_dTmdlna evaluated wholly at the lagged indices iz-3 and iz-2, with the
\* hydrogen density in the units of rec_get_xe_next2.
C22_TmSeedsAtLaggedIndex ==
    (pc = "s6" /\ nsteps = 0 /\ InArrays(iz - 3)) =>
        /\ dTmdlna_prev2 = dTmdlnaAt(iz - 3)
        /\ dTmdlna_prev = dTmdlnaAt(iz - 2)

\* C23: the Tm stored by phases 3, 4 and 5 is one function of xe[i] and
\* z(i): the steady-state value with the hydrogen density at z(i) in the
\* units rec_get_xe_next1 passes to rec_Tmss (nH * 1e-6).
\* Stated of the index written last, which is every index at its write.
C23_SteadyTmSameUnits ==
    (Len(wrote_stage) > 0 /\ wrote_stage[Len(wrote_stage)] \in {3, 4, 5}) =>
        Tm_output[Len(wrote_stage) - 1] = SteadyTmAt(Len(wrote_stage) - 1, D1em6)

====
